---- MODULE Spec2Model ----
(***************************************************************************)
(* Model of src/parkinglot/parkinglot.py: a ParkingLot holding an ordered  *)
(* list of Level objects, each owning typed Spots, a free-spot set and a   *)
(* free counter per vehicle type.                                           *)
(*                                                                          *)
(* Python objects live in a heap (a sequence of Level values) and the lot   *)
(* holds references (heap indices), so that add_level of an object that is  *)
(* already in the lot aliases it, as in Python.  Optional Python values are *)
(* wrapped: None is the empty tuple, a value x is the one-element tuple.    *)
(***************************************************************************)
EXTENDS Integers, Sequences, FiniteSets, TLC

\* ----------------------------------------------------------------------
\* Bounds of the model
\* ----------------------------------------------------------------------
MaxLevels == 2      \* longest lot.levels explored
MaxLevelId == 2     \* level ids are drawn from 1..MaxLevelId
MaxCap == 2         \* largest capacity passed to Level(...)
NumRegs == 1        \* registrations per vehicle type

LevelIds == 1..MaxLevelId
\* capacities handed to the constructor; the code accepts negative ones
Caps == {-1} \cup (0..MaxCap)
\* spot ids handed to unpark: every id a level of these capacities can own
SpotArgs == 0..(2 * MaxCap)

\* ----------------------------------------------------------------------
\* Values
\* ----------------------------------------------------------------------
None == << >>
Some(x) == << x >>

VehicleType == {"CAR", "BIKE"}

Vehicle(vtype, reg) == [vtype |-> vtype, reg |-> reg]

Vehicles == {Vehicle(t, r) : t \in VehicleType, r \in 1..NumRegs}

Spot(spot_id, vtype) ==
    [id |-> spot_id, vtype |-> vtype, is_occupied |-> FALSE, vehicle |-> None]

\* mutant: the bike loop is a copy of the car loop in which only the Spot
\* type was changed, so every id lands in the CAR free set and counter
RECURSIVE InitSpots_CopyPaste(_, _, _, _)
InitSpots_CopyPaste(level, i, hi, vtype) ==
    IF i > hi THEN level
    ELSE InitSpots_CopyPaste(
           [level EXCEPT
              !.spots = [k \in (DOMAIN level.spots) \cup {i} |->
                            IF k = i THEN Spot(i, vtype) ELSE level.spots[k]],
              !.free_spots["CAR"] = @ \cup {i},
              !.free_count["CAR"] = @ + 1],
           i + 1, hi, vtype)

\* One pass of a "for i in range(lo, hi + 1)" loop of Level.__init__ and the
\* passes after it, applied to the level built so far.
RECURSIVE InitSpots(_, _, _, _)
InitSpots(level, i, hi, vtype) ==
    IF i > hi THEN level
    ELSE InitSpots(
           [level EXCEPT
              !.spots = [k \in (DOMAIN level.spots) \cup {i} |->
                            IF k = i THEN Spot(i, vtype) ELSE level.spots[k]],
              !.free_spots[vtype] = @ \cup {i},
              !.free_count[vtype] = @ + 1],
           i + 1, hi, vtype)

\* mutant: the bike loop is range(car_spots, car_spots + bike_spots)
Level_BikeFromCar(level_id, car_spots, bike_spots) ==
    LET empty == [id |-> level_id,
                  spots |-> [k \in {} |-> Spot(k, "CAR")],
                  free_spots |-> [t \in VehicleType |-> {}],
                  free_count |-> [t \in VehicleType |-> 0]]
        cars == InitSpots(empty, 1, car_spots, "CAR")
    IN  InitSpots(cars, car_spots, car_spots + bike_spots - 1, "BIKE")

Level(level_id, car_spots, bike_spots) ==
    LET empty == [id |-> level_id,
                  spots |-> [k \in {} |-> Spot(k, "CAR")],
                  free_spots |-> [t \in VehicleType |-> {}],
                  free_count |-> [t \in VehicleType |-> 0]]
        cars == InitSpots(empty, 1, car_spots, "CAR")
    IN  InitSpots(cars, car_spots + 1, car_spots + bike_spots, "BIKE")

\* ----------------------------------------------------------------------
\* State
\* ----------------------------------------------------------------------
VARIABLES
    heap,      \* the Level objects that were handed to add_level
    levels,    \* ParkingLot.levels: references into heap, in insertion order
    ctor,      \* ghost: the constructor arguments of each heap object
    last,      \* ghost: the last call, its arguments, its outcome, the heap
               \*        object it acted on (obj, 0 for none); for a park that
               \*        allocated, the free count it found (free_before); for
               \*        an unpark, the line of the raise it left by (site, 0
               \*        for none) and whether it repeats the arguments of an
               \*        unpark that succeeded right before it (again); for
               \*        display_availability, what it printed (out)
    before,    \* ghost: heap and levels as they were when the last call began
    parked,    \* ghost: vehicles parked and not yet unparked, with their spot
    carRun,    \* ghost: successful car parks since the lot last held no car,
               \*        -1 when an unpark or add_level interrupted the count
    demo       \* ghost: how many calls of the __main__ demo the calls made so
               \*        far are, in its order; -1 once they left it.  Only
               \*        SpecDemo moves it.

vars == <<heap, levels, ctor, last, before, parked, carRun, demo>>

NoCall == [op |-> "init", vehicle |-> None, level_id |-> None, spot_id |-> None,
           ret |-> None, exc |-> None, obj |-> 0, free_before |-> None,
           site |-> 0, again |-> FALSE, out |-> None]

\* the spot ids of a level, of one type, by occupancy flag
FreeOfType(level, T) ==
    {s \in DOMAIN level.spots :
        level.spots[s].vtype = T /\ ~ level.spots[s].is_occupied}

OccupiedOfType(level, T) ==
    {s \in DOMAIN level.spots :
        level.spots[s].vtype = T /\ level.spots[s].is_occupied}

\* the occupied CAR spots of the levels in heap h
OccupiedCars(h) ==
    UNION {{<<o, s>> : s \in OccupiedOfType(h[o], "CAR")} : o \in 1..Len(h)}

RunAfterBreak(h) == IF OccupiedCars(h) = {} THEN 0 ELSE -1

Init ==
    /\ heap = << >>
    /\ levels = << >>
    /\ ctor = << >>
    /\ last = NoCall
    /\ before = [heap |-> << >>, levels |-> << >>]
    /\ parked = {}
    /\ carRun = 0
    /\ demo = 0

\* ----------------------------------------------------------------------
\* ParkingLot.add_level
\* ----------------------------------------------------------------------
\* add_level(level) where level is heap2[o]; heap2 is the heap with the
\* argument in it.
add_level(heap2, o) ==
    /\ Len(levels) < MaxLevels
    /\ heap' = heap2
    /\ levels' = Append(levels, o)
    /\ last' = [NoCall EXCEPT !.op = "add_level", !.obj = o]
    /\ before' = [heap |-> heap, levels |-> levels]
    /\ parked' = parked
    /\ carRun' = RunAfterBreak(heap2)

\* lot.add_level(Level(level_id, car_spots, bike_spots))
AddNewLevel ==
    \E level_id \in LevelIds, car_spots \in Caps, bike_spots \in Caps :
        /\ add_level(Append(heap, Level(level_id, car_spots, bike_spots)),
                     Len(heap) + 1)
        /\ ctor' = Append(ctor, [level_id |-> level_id, car_spots |-> car_spots,
                                 bike_spots |-> bike_spots])
        /\ demo' = demo

\* lot.add_level(lv) for a Level object lv that is already in the lot
AddSameLevel ==
    \E o \in 1..Len(heap) :
        /\ add_level(heap, o)
        /\ ctor' = ctor
        /\ demo' = demo

\* ----------------------------------------------------------------------
\* ParkingLot.park
\* ----------------------------------------------------------------------
\* The for loop of park: the position in levels of the first level, from
\* position i on, whose free set for vtype is not empty; 0 when the loop
\* runs off the end.
\* mutant: the scan runs over reversed(levels)
ParkScan_Reversed(i, vtype) ==
    LET S == {k \in i..Len(levels) : heap[levels[k]].free_spots[vtype] # {}}
    IN  IF S = {} THEN 0 ELSE CHOOSE k \in S : \A m \in S : m <= k

\* mutant: "return None, None" sits inside the loop instead of "continue"
ParkScan_FirstOnly(i, vtype) ==
    IF i > Len(levels) THEN 0
    ELSE IF heap[levels[i]].free_spots[vtype] = {} THEN 0
    ELSE i

RECURSIVE ParkScan(_, _)
ParkScan(i, vtype) ==
    IF i > Len(levels) THEN 0
    ELSE IF heap[levels[i]].free_spots[vtype] = {} THEN ParkScan(i + 1, vtype)
    ELSE i

\* the members free_set.pop() may return
PopChoices(free_set) == free_set

\* mutant: the spot is read with next(iter(free_set)) and stays in the set
ParkInLevel_NoPop(level, spot_id, vehicle) ==
    [level EXCEPT
       !.spots[spot_id].is_occupied = TRUE,
       !.spots[spot_id].vehicle = Some(vehicle),
       !.free_count[vehicle.vtype] = @ - 1]

\* mutant: the decrement is applied to every counter of the level
ParkInLevel_BothCounts(level, spot_id, vehicle) ==
    [level EXCEPT
       !.free_spots[vehicle.vtype] = @ \ {spot_id},
       !.spots[spot_id].is_occupied = TRUE,
       !.spots[spot_id].vehicle = Some(vehicle),
       !.free_count = [t \in VehicleType |-> @[t] - 1]]

\* mutant: "level.free_count[vehicle.vtype] -= 1" is missing
ParkInLevel_NoCount(level, spot_id, vehicle) ==
    [level EXCEPT
       !.free_spots[vehicle.vtype] = @ \ {spot_id},
       !.spots[spot_id].is_occupied = TRUE,
       !.spots[spot_id].vehicle = Some(vehicle)]

\* the body of the loop after the pop, applied to one level
ParkInLevel(level, spot_id, vehicle) ==
    [level EXCEPT
       !.free_spots[vehicle.vtype] = @ \ {spot_id},
       !.spots[spot_id].is_occupied = TRUE,
       !.spots[spot_id].vehicle = Some(vehicle),
       !.free_count[vehicle.vtype] = @ - 1]

park(vehicle) ==
    LET i == ParkScan(1, vehicle.vtype) IN
    /\ before' = [heap |-> heap, levels |-> levels]
    /\ levels' = levels
    /\ ctor' = ctor
    /\ IF i = 0
       THEN /\ heap' = heap
            /\ last' = [NoCall EXCEPT !.op = "park", !.vehicle = Some(vehicle),
                                      !.ret = Some(<<None, None>>)]
            /\ parked' = parked
            /\ carRun' = carRun
       ELSE LET o == levels[i] IN
            \E spot_id \in PopChoices(heap[o].free_spots[vehicle.vtype]) :
               /\ heap' = [heap EXCEPT ![o] = ParkInLevel(@, spot_id, vehicle)]
               /\ last' = [NoCall EXCEPT
                             !.op = "park", !.vehicle = Some(vehicle),
                             !.ret = Some(<<Some(heap[o].id),
                                            Some(heap[o].spots[spot_id].id)>>),
                             !.obj = o,
                             !.free_before =
                                Some(heap[o].free_count[vehicle.vtype])]
               /\ parked' = parked \cup
                     {[vehicle |-> vehicle, obj |-> o, spot_id |-> spot_id,
                       loc |-> <<heap[o].id, heap[o].spots[spot_id].id>>]}
               /\ carRun' = IF vehicle.vtype = "CAR" /\ carRun >= 0
                            THEN carRun + 1 ELSE carRun

Park == \E vehicle \in Vehicles : park(vehicle) /\ demo' = demo

\* ----------------------------------------------------------------------
\* ParkingLot.unpark
\* ----------------------------------------------------------------------
\* next((l for l in self.levels if l.id == level_id), None): the position of
\* the first level, from position i on, with that id; 0 for None.
\* mutant: a later level with the id replaces an earlier one (a dict built
\* from the levels, keyed by id)
FindLevel_LastMatch(i, level_id) ==
    LET S == {k \in i..Len(levels) : heap[levels[k]].id = level_id}
    IN  IF S = {} THEN 0 ELSE CHOOSE k \in S : \A m \in S : m <= k

RECURSIVE FindLevel(_, _)
FindLevel(i, level_id) ==
    IF i > Len(levels) THEN 0
    ELSE IF heap[levels[i]].id = level_id THEN i
    ELSE FindLevel(i + 1, level_id)

ValueError(msg) == [cls |-> "ValueError", msg |-> msg]

\* mutant: the spot id is not put back into the free set
ReleaseInLevel_NoAdd(level, spot_id) ==
    LET vehicle_type == level.spots[spot_id].vtype IN
    [level EXCEPT
       !.spots[spot_id].is_occupied = FALSE,
       !.spots[spot_id].vehicle = None,
       !.free_count[vehicle_type] = @ + 1]

\* mutant: the free_count increment is missing
ReleaseInLevel_NoCount(level, spot_id) ==
    LET vehicle_type == level.spots[spot_id].vtype IN
    [level EXCEPT
       !.spots[spot_id].is_occupied = FALSE,
       !.spots[spot_id].vehicle = None,
       !.free_spots[vehicle_type] = @ \cup {spot_id}]

\* mutant: "spot.vehicle = None" is missing
ReleaseInLevel_KeepsVehicle(level, spot_id) ==
    LET vehicle_type == level.spots[spot_id].vtype IN
    [level EXCEPT
       !.spots[spot_id].is_occupied = FALSE,
       !.free_spots[vehicle_type] = @ \cup {spot_id},
       !.free_count[vehicle_type] = @ + 1]

\* the four assignments at the end of unpark, applied to one level
ReleaseInLevel(level, spot_id) ==
    LET vehicle_type == level.spots[spot_id].vtype IN
    [level EXCEPT
       !.spots[spot_id].is_occupied = FALSE,
       !.spots[spot_id].vehicle = None,
       !.free_spots[vehicle_type] = @ \cup {spot_id},
       !.free_count[vehicle_type] = @ + 1]

\* mutant: the "if not spot.is_occupied" check is missing
RaiseSite_NoOccupiedCheck(level_id, spot_id) ==
    LET i == FindLevel(1, level_id) IN
    IF i = 0 THEN 73
    ELSE IF spot_id \notin DOMAIN heap[levels[i]].spots THEN 77
    ELSE 0

\* the source line of the raise statement unpark leaves by, 0 when it
\* reaches the assignments
RaiseSite(level_id, spot_id) ==
    LET i == FindLevel(1, level_id) IN
    IF i = 0 THEN 73
    ELSE IF spot_id \notin DOMAIN heap[levels[i]].spots THEN 77
    ELSE IF ~ heap[levels[i]].spots[spot_id].is_occupied THEN 79
    ELSE 0

\* mutant: the message of line 79 was pasted into line 77
Raised_Pasted(site) ==
    CASE site = 73 -> Some(ValueError("Invalid level ID"))
      [] site = 77 -> Some(ValueError("Spot already empty"))
      [] site = 79 -> Some(ValueError("Spot already empty"))
      [] OTHER -> None

\* the exception each raise statement of unpark constructs
Raised(site) ==
    CASE site = 73 -> Some(ValueError("Invalid level ID"))
      [] site = 77 -> Some(ValueError("Invalid spot ID"))
      [] site = 79 -> Some(ValueError("Spot already empty"))
      [] OTHER -> None

\* what unpark raises, None when it raises nothing
UnparkError(level_id, spot_id) == Raised(RaiseSite(level_id, spot_id))

\* mutant: the four assignments come before the "if not spot.is_occupied"
\* check, so a call that raises "Spot already empty" has released first
unpark_ReleaseFirst(level_id, spot_id) ==
    LET i == FindLevel(1, level_id)
        exc == UnparkError(level_id, spot_id)
        site == RaiseSite(level_id, spot_id)
        o == IF i = 0 THEN 0 ELSE levels[i]
    IN
    /\ before' = [heap |-> heap, levels |-> levels]
    /\ levels' = levels
    /\ ctor' = ctor
    /\ last' = [NoCall EXCEPT !.op = "unpark", !.level_id = Some(level_id),
                              !.spot_id = Some(spot_id), !.exc = exc,
                              !.obj = IF exc = None THEN o ELSE 0,
                              !.site = site,
                              !.again = /\ last.op = "unpark"
                                        /\ last.exc = None
                                        /\ last.level_id = Some(level_id)
                                        /\ last.spot_id = Some(spot_id)]
    /\ IF site = 73 \/ site = 77
       THEN /\ heap' = heap
            /\ parked' = parked
            /\ carRun' = RunAfterBreak(heap)
       ELSE /\ heap' = [heap EXCEPT ![o] = ReleaseInLevel(@, spot_id)]
            /\ parked' = {t \in parked : ~(t.obj = o /\ t.spot_id = spot_id)}
            /\ carRun' = RunAfterBreak(heap')

unpark(level_id, spot_id) ==
    LET i == FindLevel(1, level_id)
        exc == UnparkError(level_id, spot_id)
        o == IF i = 0 THEN 0 ELSE levels[i]
    IN
    /\ before' = [heap |-> heap, levels |-> levels]
    /\ levels' = levels
    /\ ctor' = ctor
    /\ last' = [NoCall EXCEPT !.op = "unpark", !.level_id = Some(level_id),
                              !.spot_id = Some(spot_id), !.exc = exc,
                              !.obj = IF exc = None THEN o ELSE 0,
                              !.site = RaiseSite(level_id, spot_id),
                              !.again = /\ last.op = "unpark"
                                        /\ last.exc = None
                                        /\ last.level_id = Some(level_id)
                                        /\ last.spot_id = Some(spot_id)]
    /\ IF exc # None
       THEN /\ heap' = heap
            /\ parked' = parked
            /\ carRun' = RunAfterBreak(heap)
       ELSE /\ heap' = [heap EXCEPT ![o] = ReleaseInLevel(@, spot_id)]
            /\ parked' = {t \in parked : ~(t.obj = o /\ t.spot_id = spot_id)}
            /\ carRun' = RunAfterBreak(heap')

Unpark ==
    \E level_id \in LevelIds, spot_id \in SpotArgs :
        unpark(level_id, spot_id) /\ demo' = demo

\* ----------------------------------------------------------------------
\* ParkingLot.display_availability
\* ----------------------------------------------------------------------
\* mutant: the CAR column prints the BIKE counter
AvailabilityLine_BikeTwice(level) ==
    [id |-> level.id, CAR |-> level.free_count["BIKE"],
     BIKE |-> level.free_count["BIKE"]]

\* the values of the f-string printed for one level
AvailabilityLine(level) ==
    [id |-> level.id, CAR |-> level.free_count["CAR"],
     BIKE |-> level.free_count["BIKE"]]

\* everything the call prints: the header, one line per level in the order
\* of self.levels, the footer
Printed ==
    [header |-> "----- Parking Availability -----",
     lines |-> [i \in 1..Len(levels) |-> AvailabilityLine(heap[levels[i]])],
     footer |-> "--------------------------------"]

display_availability ==
    /\ before' = [heap |-> heap, levels |-> levels]
    /\ last' = [NoCall EXCEPT !.op = "display_availability",
                              !.out = Some(Printed)]
    /\ UNCHANGED <<heap, levels, ctor, parked, carRun>>

DisplayAvailability == display_availability /\ demo' = demo

\* ----------------------------------------------------------------------
\* Specification
\* ----------------------------------------------------------------------
Next == AddNewLevel \/ AddSameLevel \/ Park \/ Unpark \/ DisplayAvailability

Spec == Init /\ [][Next]_vars

\* ----------------------------------------------------------------------
\* The lot of the __main__ block
\* ----------------------------------------------------------------------
\* The two add_level statements of __main__ build the lot; after them the
\* lot takes park, unpark and display_availability calls.  demo is the
\* number of statements of __main__ executed so far as long as the calls
\* made are exactly those statements in their order, and -1 once a call
\* was made that is not the next statement.
car == Vehicle("CAR", 1)
bike == Vehicle("BIKE", 1)

\* lot.add_level(Level(1, 2, 2)); lot.add_level(Level(2, 1, 3))
DemoAddLevel ==
    \E c \in {[level_id |-> 1, car_spots |-> 2, bike_spots |-> 2],
              [level_id |-> 2, car_spots |-> 1, bike_spots |-> 3]} :
        /\ demo = c.level_id - 1
        /\ add_level(Append(heap, Level(c.level_id, c.car_spots, c.bike_spots)),
                     Len(heap) + 1)
        /\ ctor' = Append(ctor, c)
        /\ demo' = demo + 1

\* l1, s1 = lot.park(car); l2, s2 = lot.park(bike)
DemoPark ==
    \E vehicle \in Vehicles :
        /\ Len(levels) = 2
        /\ park(vehicle)
        /\ demo' = IF demo = 3 /\ vehicle = car THEN 4
                   ELSE IF demo = 4 /\ vehicle = bike THEN 5
                   ELSE -1

\* lot.unpark(l1, s1), (l1, s1) being what park(car) returned
DemoUnpark ==
    \E level_id \in LevelIds, spot_id \in SpotArgs :
        /\ Len(levels) = 2
        /\ unpark(level_id, spot_id)
        /\ demo' = IF /\ demo = 6
                      /\ \E t \in parked : /\ t.vehicle = car
                                           /\ t.loc = <<level_id, spot_id>>
                   THEN 7
                   ELSE -1

\* lot.display_availability()
DemoDisplay ==
    /\ Len(levels) = 2
    /\ display_availability
    /\ demo' = IF demo \in {2, 5, 7} THEN demo + 1 ELSE -1

NextDemo == DemoAddLevel \/ DemoPark \/ DemoUnpark \/ DemoDisplay

SpecDemo == Init /\ [][NextDemo]_vars

\* ----------------------------------------------------------------------
\* Vocabulary of the properties
\* ----------------------------------------------------------------------
\* the heap objects a level list refers to
ObjectsOf(lv) == {lv[i] : i \in 1..Len(lv)}
LotObjects == ObjectsOf(levels)

\* c is a park call that returned a location / the (None, None) sentinel
ParkAllocated(c) == c.op = "park" /\ c.ret # Some(<<None, None>>)
ParkUnavailable(c) == c.op = "park" /\ c.ret = Some(<<None, None>>)
RetLevel(c) == c.ret[1][1][1]
RetSpot(c) == c.ret[1][2][1]
ArgType(c) == c.vehicle[1].vtype

\* ----------------------------------------------------------------------
\* C1: in every reachable state, for every level and type T, free_count[T]
\* is the size of free_spots[T], and free_spots[T] is exactly the set of ids
\* of the level's spots of type T whose is_occupied flag is false.
\* ----------------------------------------------------------------------
C1_FreeSetsExact ==
    \A o \in 1..Len(heap) : \A T \in VehicleType :
        /\ heap[o].free_count[T] = Cardinality(heap[o].free_spots[T])
        /\ heap[o].free_spots[T] = FreeOfType(heap[o], T)

\* a level with a free and an occupied spot of one type, after an unpark
\* that succeeded
C1_Witness ==
    /\ last.op = "unpark" /\ last.exc = None
    /\ \E o \in LotObjects : \E T \in VehicleType :
          FreeOfType(heap[o], T) # {} /\ OccupiedOfType(heap[o], T) # {}

\* ----------------------------------------------------------------------
\* C2: a park that allocated, followed at once by unpark at the location it
\* returned: the unpark succeeds, the free count of the vehicle's type on the
\* level park allocated from is back at its value before the park, and the
\* spot park allocated is unoccupied.
\* ----------------------------------------------------------------------
C2_RoundTrip ==
    [][ ( /\ ParkAllocated(last)
          /\ last'.op = "unpark"
          /\ last'.level_id = Some(RetLevel(last))
          /\ last'.spot_id = Some(RetSpot(last)) )
        => ( /\ last'.exc = None
             /\ heap'[last.obj].free_count[ArgType(last)] = last.free_before[1]
             /\ ~ heap'[last.obj].spots[RetSpot(last)].is_occupied ) ]_vars

\* ----------------------------------------------------------------------
\* C3: park never selects a spot that is occupied (or bound to a vehicle)
\* right before the call, and every vehicle parked and not yet unparked is
\* the vehicle bound to its spot, no two of them sharing a spot.
\* ----------------------------------------------------------------------
TicketsDistinct ==
    /\ \A t \in parked :
          /\ heap[t.obj].spots[t.spot_id].is_occupied
          /\ heap[t.obj].spots[t.spot_id].vehicle = Some(t.vehicle)
    /\ \A t1, t2 \in parked :
          (t1.obj = t2.obj /\ t1.spot_id = t2.spot_id) => t1 = t2

C3_NoDoubleAllocation ==
    /\ ParkAllocated(last) =>
          /\ ~ before.heap[last.obj].spots[RetSpot(last)].is_occupied
          /\ before.heap[last.obj].spots[RetSpot(last)].vehicle = None
    /\ TicketsDistinct

\* a park allocated a spot in a level where another vehicle of that type
\* is parked
C3_Witness ==
    /\ ParkAllocated(last)
    /\ \E t1, t2 \in parked :
          /\ t1 # t2 /\ t1.obj = t2.obj /\ t1.obj = last.obj
          /\ t1.vehicle.vtype = t2.vehicle.vtype

\* ----------------------------------------------------------------------
\* C4: a park that allocates takes the first level in insertion order with a
\* free spot of the vehicle's type: it returns that level's id and a spot id
\* that was in that level's free set, and every level before it has no
\* unoccupied spot of the type.
\* ----------------------------------------------------------------------
C4_FirstLevelWins ==
    ParkAllocated(last) =>
       \E i \in 1..Len(before.levels) :
          LET level == before.heap[before.levels[i]] IN
          /\ before.levels[i] = last.obj
          /\ RetLevel(last) = level.id
          /\ RetSpot(last) \in level.free_spots[ArgType(last)]
          /\ heap[last.obj].spots[RetSpot(last)].is_occupied
          /\ \A j \in 1..(i - 1) :
                FreeOfType(before.heap[before.levels[j]], ArgType(last)) = {}

\* a park allocated from the second level of the lot, a level object other
\* than the first
C4_Witness ==
    /\ ParkAllocated(last)
    /\ Len(levels) = 2 /\ levels[1] # levels[2]
    /\ last.obj = levels[2]

\* ----------------------------------------------------------------------
\* C5: park returns (None, None) exactly when no level of the lot has an
\* unoccupied spot of the vehicle's type, and then changes nothing.
\* ----------------------------------------------------------------------
C5_UnavailableIff ==
    last.op = "park" =>
       /\ ParkUnavailable(last) <=>
             \A o \in ObjectsOf(before.levels) :
                FreeOfType(before.heap[o], ArgType(last)) = {}
       /\ ParkUnavailable(last) =>
             (heap = before.heap /\ levels = before.levels)

\* park returned the sentinel in a lot that has spots of the type, all
\* occupied, and a free spot of the other type
C5_Witness ==
    /\ ParkUnavailable(last)
    /\ \E o \in LotObjects : OccupiedOfType(heap[o], ArgType(last)) # {}
    /\ \E o \in LotObjects : \E T \in VehicleType :
          T # ArgType(last) /\ FreeOfType(heap[o], T) # {}

\* ----------------------------------------------------------------------
\* C6: starting from a lot that holds no car, with no unpark and no
\* add_level in between, a car park call succeeds while fewer car parks have
\* succeeded than the lot has CAR spots, and returns the sentinel once as
\* many have; bike parks and free BIKE spots play no part.
\* ----------------------------------------------------------------------
\* the CAR capacity of the lot: the CAR spots its level objects own
TotalCarCapacity ==
    Cardinality(UNION {{<<o, s>> : s \in {k \in DOMAIN heap[o].spots :
                                           heap[o].spots[k].vtype = "CAR"}} :
                       o \in LotObjects})

C6_Exhaustion ==
    (last.op = "park" /\ ArgType(last) = "CAR" /\ carRun >= 0) =>
        IF ParkUnavailable(last)
        THEN carRun = TotalCarCapacity
        ELSE carRun <= TotalCarCapacity

\* the car park after as many successful ones as the lot has CAR spots, on
\* two levels that both own CAR spots, came back with the sentinel while a
\* BIKE spot is free
C6_Witness ==
    /\ ParkUnavailable(last) /\ ArgType(last) = "CAR"
    /\ carRun = TotalCarCapacity /\ carRun >= 2
    /\ Cardinality(LotObjects) = 2
    /\ \A o \in LotObjects : OccupiedOfType(heap[o], "CAR") # {}
    /\ \E o \in LotObjects : FreeOfType(heap[o], "BIKE") # {}

\* ----------------------------------------------------------------------
\* C7: in every reachable state, for every level and type T, free_count[T]
\* plus the number of occupied spots of type T equals the capacity of type T
\* the level was constructed with.
\* ----------------------------------------------------------------------
C7_CapacityInvariant ==
    \A o \in 1..Len(heap) :
        /\ heap[o].free_count["CAR"]
              + Cardinality(OccupiedOfType(heap[o], "CAR")) = ctor[o].car_spots
        /\ heap[o].free_count["BIKE"]
              + Cardinality(OccupiedOfType(heap[o], "BIKE")) = ctor[o].bike_spots

\* ----------------------------------------------------------------------
\* C8: unpark succeeds only on a spot that is occupied when it is called;
\* an unpark with the arguments of an unpark that succeeded, no park having
\* been called since, raises "Spot already empty" and changes nothing.
\* Stated call by call, on the state a call began in (before) and the state
\* it left: a successful unpark leaves its arguments resolving to an
\* unoccupied spot, no call but park ends that, and unpark of arguments that
\* resolve to an unoccupied spot raises "Spot already empty".
\* ----------------------------------------------------------------------
\* the position in the level list lv of the first level with this id, 0
\* for none (h is the heap lv refers to)
FirstWithIdIn(lv, h, level_id) ==
    LET S == {i \in 1..Len(lv) : h[lv[i]].id = level_id}
    IN  IF S = {} THEN 0 ELSE CHOOSE i \in S : \A j \in S : i <= j

\* the arguments name a level of the lot and a spot of it
ResolvesToSpotIn(lv, h, level_id, spot_id) ==
    /\ FirstWithIdIn(lv, h, level_id) # 0
    /\ spot_id \in DOMAIN h[lv[FirstWithIdIn(lv, h, level_id)]].spots

ResolvesToFreeIn(lv, h, level_id, spot_id) ==
    /\ ResolvesToSpotIn(lv, h, level_id, spot_id)
    /\ ~ h[lv[FirstWithIdIn(lv, h, level_id)]].spots[spot_id].is_occupied

\* the same, in the state the last call began in
WasSpot(level_id, spot_id) ==
    ResolvesToSpotIn(before.levels, before.heap, level_id, spot_id)
WasFree(level_id, spot_id) ==
    ResolvesToFreeIn(before.levels, before.heap, level_id, spot_id)
IsFree(level_id, spot_id) ==
    ResolvesToFreeIn(levels, heap, level_id, spot_id)

AlreadyEmpty == Some(ValueError("Spot already empty"))

Unchanged == heap = before.heap /\ levels = before.levels

C8_DoubleReleaseRejected ==
    /\ (last.op = "unpark" /\ last.exc = None) =>
          /\ WasSpot(last.level_id[1], last.spot_id[1])
          /\ ~ WasFree(last.level_id[1], last.spot_id[1])
          /\ IsFree(last.level_id[1], last.spot_id[1])
    /\ (last.op = "unpark" /\ WasFree(last.level_id[1], last.spot_id[1])) =>
          (last.exc = AlreadyEmpty /\ Unchanged)
    /\ (last.op = "unpark" /\ last.again) =>
          (last.exc = AlreadyEmpty /\ Unchanged)
    /\ last.op # "park" =>
          \A l \in LevelIds, s \in SpotArgs : WasFree(l, s) => IsFree(l, s)

\* the second of two unpark calls with the same arguments, the first of
\* which succeeded, raised "Spot already empty"
C8_Witness ==
    last.op = "unpark" /\ last.again /\ last.exc = AlreadyEmpty

\* ----------------------------------------------------------------------
\* C9: unpark with a level_id no level of the lot has raises "Invalid level
\* ID" whatever spot_id is; with a level_id some level has and a spot_id
\* absent from the spots of the first such level it raises "Invalid spot
\* ID"; "Spot already empty" is raised only when level and spot exist.
\* ----------------------------------------------------------------------
C9_UnknownReferences ==
    last.op = "unpark" =>
       LET l == last.level_id[1]
           s == last.spot_id[1]
           i == FirstWithIdIn(before.levels, before.heap, l)
       IN  /\ i = 0 => last.exc = Some(ValueError("Invalid level ID"))
           /\ (i # 0 /\ ~ WasSpot(l, s)) =>
                 last.exc = Some(ValueError("Invalid spot ID"))
           /\ last.exc = AlreadyEmpty => WasSpot(l, s)

\* unpark raised "Invalid spot ID" for a spot id that the level named lacks
\* and another level of the lot owns
C9_Witness ==
    /\ last.op = "unpark"
    /\ last.exc = Some(ValueError("Invalid spot ID"))
    /\ \E o \in LotObjects : last.spot_id[1] \in DOMAIN heap[o].spots

\* ----------------------------------------------------------------------
\* C10: the three failures of unpark are raised as conditions of distinct
\* kinds: two unpark calls that leave by different raise statements raise
\* exceptions of different classes.
\* ----------------------------------------------------------------------
C10_DistinctKinds ==
    [][ ( /\ last.op = "unpark" /\ last.site # 0
          /\ last'.op = "unpark" /\ last'.site # 0
          /\ last.site # last'.site )
        => last.exc[1].cls # last'.exc[1].cls ]_vars

\* ----------------------------------------------------------------------
\* C11: unpark resolves level_id to the first level in insertion order with
\* that id: whether it succeeds is decided by that level alone, a success
\* frees the spot of that level, and no other Level object, a later level
\* with the same id among them, is changed by the call.
\* ----------------------------------------------------------------------
C11_FirstMatchWins ==
    last.op = "unpark" =>
       LET l == last.level_id[1]
           s == last.spot_id[1]
           i == FirstWithIdIn(before.levels, before.heap, l)
           first == IF i = 0 THEN 0 ELSE before.levels[i]
       IN  /\ last.exc = None <=>
                 /\ i # 0
                 /\ s \in DOMAIN before.heap[first].spots
                 /\ before.heap[first].spots[s].is_occupied
           /\ last.exc = None =>
                 (last.obj = first /\ ~ heap[first].spots[s].is_occupied)
           /\ \A o \in 1..Len(heap) : o # first => heap[o] = before.heap[o]
           /\ levels = before.levels

\* unpark succeeded on the first of two Level objects with one id while the
\* second has the spot of that id occupied too
C11_Witness ==
    /\ last.op = "unpark" /\ last.exc = None
    /\ Len(levels) = 2 /\ levels[1] # levels[2]
    /\ heap[levels[1]].id = heap[levels[2]].id
    /\ last.obj = levels[1]
    /\ last.spot_id[1] \in DOMAIN heap[levels[2]].spots
    /\ heap[levels[2]].spots[last.spot_id[1]].is_occupied

\* ----------------------------------------------------------------------
\* C12: in every reachable state, for every spot of every level,
\* is_occupied is true exactly when the spot's vehicle is not None.
\* ----------------------------------------------------------------------
C12_OccupiedIffVehicle ==
    \A o \in 1..Len(heap) : \A s \in DOMAIN heap[o].spots :
        heap[o].spots[s].is_occupied <=> heap[o].spots[s].vehicle # None

\* after an unpark that succeeded, a level with the released spot and an
\* occupied one
C12_Witness ==
    /\ last.op = "unpark" /\ last.exc = None
    /\ \E s \in DOMAIN heap[last.obj].spots :
          heap[last.obj].spots[s].is_occupied

\* ----------------------------------------------------------------------
\* C13: Level(level_id, c, b) with c >= 0 and b >= 0 has exactly the spots
\* 1..c+b, those in 1..c of type CAR and those in c+1..c+b of type BIKE, each
\* carrying its own id; as constructed they are all unoccupied with no
\* vehicle, free_spots holds exactly these ids per type and free_count is c
\* and b.
\* ----------------------------------------------------------------------
\* the add_level call that just returned was handed a new Level object
JustConstructed(o) ==
    last.op = "add_level" /\ last.obj = o /\ o > Len(before.heap)

C13_Construction ==
    \A o \in 1..Len(heap) :
       LET c == ctor[o].car_spots
           b == ctor[o].bike_spots
           level == heap[o]
       IN  (c >= 0 /\ b >= 0) =>
              /\ level.id = ctor[o].level_id
              /\ DOMAIN level.spots = 1..(c + b)
              /\ \A k \in 1..(c + b) :
                    /\ level.spots[k].id = k
                    /\ level.spots[k].vtype = IF k <= c THEN "CAR" ELSE "BIKE"
              /\ (1..c) \cap ((c + 1)..(c + b)) = {}
              /\ JustConstructed(o) =>
                    /\ \A k \in 1..(c + b) :
                          /\ ~ level.spots[k].is_occupied
                          /\ level.spots[k].vehicle = None
                    /\ level.free_spots["CAR"] = 1..c
                    /\ level.free_spots["BIKE"] = (c + 1)..(c + b)
                    /\ level.free_count["CAR"] = c
                    /\ level.free_count["BIKE"] = b

\* a level with spots of both types has just been constructed and added
C13_Witness ==
    \E o \in 1..Len(heap) :
       /\ JustConstructed(o)
       /\ ctor[o].car_spots >= 2 /\ ctor[o].bike_spots >= 2

\* ----------------------------------------------------------------------
\* C14: constructing a Level with a negative car or bike capacity fails, so
\* that no level built with a negative capacity ever exists.
\* ----------------------------------------------------------------------
C14_InvalidCapacityRejected ==
    \A o \in 1..Len(heap) : ctor[o].car_spots >= 0 /\ ctor[o].bike_spots >= 0

\* ----------------------------------------------------------------------
\* C15: display_availability changes no spot, free set, free count or level
\* order, and prints, for each level in insertion order, the level's id and
\* its numbers of unoccupied CAR and BIKE spots.
\* ----------------------------------------------------------------------
C15_DisplayReadOnly ==
    last.op = "display_availability" =>
       /\ Unchanged
       /\ last.out[1].lines =
             [i \in 1..Len(before.levels) |->
                LET level == before.heap[before.levels[i]] IN
                [id |-> level.id,
                 CAR |-> Cardinality(FreeOfType(level, "CAR")),
                 BIKE |-> Cardinality(FreeOfType(level, "BIKE"))]]

\* availability was displayed for two Level objects, one of them with an
\* occupied spot and with different CAR and BIKE numbers
C15_Witness ==
    /\ last.op = "display_availability"
    /\ Len(levels) = 2 /\ levels[1] # levels[2]
    /\ \E i \in 1..2 :
          /\ last.out[1].lines[i].CAR # last.out[1].lines[i].BIKE
          /\ \E T \in VehicleType : OccupiedOfType(heap[levels[i]], T) # {}

\* ----------------------------------------------------------------------
\* C16: in the lot of __main__ (Level 1 with 2 CAR and 2 BIKE spots, then
\* Level 2 with 1 CAR and 3 BIKE spots) park(car) and then park(bike) both
\* return level 1 whichever spot is popped, the availability displayed after
\* them is Level 1: CAR=1, BIKE=1 and Level 2: CAR=1, BIKE=3, and after
\* unpark at the car's returned location it is Level 1: CAR=2, BIKE=1 and
\* Level 2: CAR=1, BIKE=3.
\* ----------------------------------------------------------------------
C16_ReferenceScenario ==
    /\ demo \in {4, 5} => ParkAllocated(last) /\ RetLevel(last) = 1
    /\ demo \in {5, 6} =>
          /\ {t.vehicle : t \in parked} = {car, bike}
          /\ \A t \in parked : t.loc[1] = 1
    /\ demo = 6 =>
          last.out[1].lines = << [id |-> 1, CAR |-> 1, BIKE |-> 1],
                                 [id |-> 2, CAR |-> 1, BIKE |-> 3] >>
    /\ demo = 7 => last.op = "unpark" /\ last.exc = None
    /\ demo = 8 =>
          last.out[1].lines = << [id |-> 1, CAR |-> 2, BIKE |-> 1],
                                 [id |-> 2, CAR |-> 1, BIKE |-> 3] >>

\* the last statement of __main__ has run
C16_Witness == demo = 8 /\ last.op = "display_availability"

\* ----------------------------------------------------------------------
\* C17: a park that allocates or an unpark that succeeds changes the
\* occupancy of exactly one spot and the free set and free count of exactly
\* one (level, type) pair; every other spot, the other type's set and count,
\* every other Level object and the level list are unchanged.  A spot bound
\* to a vehicle keeps that vehicle through every call but an unpark that
\* succeeds on that spot.
\* ----------------------------------------------------------------------
UnparkSucceeded(c) == c.op = "unpark" /\ c.exc = None
TouchedSpot == IF last.op = "park" THEN RetSpot(last) ELSE last.spot_id[1]

C17_OneSpotPerCall ==
    /\ (ParkAllocated(last) \/ UnparkSucceeded(last)) =>
          LET o == last.obj
              s == TouchedSpot
              T == before.heap[o].spots[s].vtype
              was == before.heap[o]
              now == heap[o]
          IN  /\ levels = before.levels
              /\ Len(heap) = Len(before.heap)
              /\ \A o2 \in 1..Len(heap) : o2 # o => heap[o2] = before.heap[o2]
              /\ now.id = was.id
              /\ DOMAIN now.spots = DOMAIN was.spots
              /\ \A k \in DOMAIN was.spots : k # s => now.spots[k] = was.spots[k]
              /\ now.spots[s].is_occupied # was.spots[s].is_occupied
              /\ now.spots[s].id = was.spots[s].id
              /\ now.spots[s].vtype = was.spots[s].vtype
              /\ \A T2 \in VehicleType :
                    T2 # T => /\ now.free_spots[T2] = was.free_spots[T2]
                              /\ now.free_count[T2] = was.free_count[T2]
              /\ now.free_spots[T] # was.free_spots[T]
              /\ now.free_count[T] # was.free_count[T]
    /\ \A o \in 1..Len(before.heap) : \A k \in DOMAIN before.heap[o].spots :
          ( /\ before.heap[o].spots[k].is_occupied
            /\ ~ (UnparkSucceeded(last) /\ last.obj = o /\ last.spot_id[1] = k) )
          => /\ heap[o].spots[k].is_occupied
             /\ heap[o].spots[k].vehicle = before.heap[o].spots[k].vehicle

\* a park allocated in a lot of two Level objects while both already held a
\* vehicle
C17_Witness ==
    /\ ParkAllocated(last)
    /\ Len(levels) = 2 /\ levels[1] # levels[2]
    /\ \A i \in 1..2 : \E k \in DOMAIN before.heap[levels[i]].spots :
          before.heap[levels[i]].spots[k].is_occupied

\* ----------------------------------------------------------------------
\* C18: no two different vehicles that are both parked (parked and not yet
\* unparked) were given the same (level_id, spot_id) by park.
\* ----------------------------------------------------------------------
C18_LocationIdentifiesVehicle ==
    \A t1, t2 \in parked : t1.vehicle # t2.vehicle => t1.loc # t2.loc

\* ----------------------------------------------------------------------
\* C19: an unpark that raises (unknown level, unknown spot, spot already
\* empty) leaves every Level object and the level list as they were.
\* ----------------------------------------------------------------------
C19_FailedUnparkChangesNothing ==
    (last.op = "unpark" /\ last.exc # None) => Unchanged

\* unpark raised "Spot already empty" in a level that holds a vehicle
C19_Witness ==
    /\ last.op = "unpark" /\ last.exc = AlreadyEmpty
    /\ LET level == heap[levels[FirstWithIdIn(levels, heap, last.level_id[1])]]
       IN  \E k \in DOMAIN level.spots : level.spots[k].is_occupied

\* ----------------------------------------------------------------------
\* C20: every occupied spot holds a vehicle of the spot's type, and the
\* spot ids of a level and the type of each spot are those the level was
\* constructed with.
\* ----------------------------------------------------------------------
C20_TypeMatching ==
    \A o \in 1..Len(heap) :
       LET built == Level(ctor[o].level_id, ctor[o].car_spots,
                          ctor[o].bike_spots)
       IN  /\ DOMAIN heap[o].spots = DOMAIN built.spots
           /\ \A k \in DOMAIN heap[o].spots :
                 /\ heap[o].spots[k].vtype = built.spots[k].vtype
                 /\ heap[o].spots[k].is_occupied =>
                       /\ heap[o].spots[k].vehicle # None
                       /\ heap[o].spots[k].vehicle[1].vtype
                             = heap[o].spots[k].vtype

\* a level holds a car in a CAR spot and a bike in a BIKE spot
C20_Witness ==
    \E o \in 1..Len(heap) : \A T \in VehicleType :
        OccupiedOfType(heap[o], T) # {}

====
